---- MODULE Spec2Model ----
(***************************************************************************)
(* Model of the MCP gateway programs of golang-mcp-intermediate-server.    *)
(*                                                                         *)
(* Spec       the external MCP server (MCP_SERVER/external_mcp): it spawns *)
(*            one child process per entry of cfg.MCPStdIOServers, runs the *)
(*            handshake against each, serves tools/call by trying every    *)
(*            client in slice order, and on a signal runs                  *)
(*            shutdownMCPClients.                                          *)
(* FairSpec   Spec with weak fairness on the steps of the gateway itself.  *)
(* SpecInter  the intermediate server (setupClients / handleToolCall) with *)
(*            its two fixed backends helloClient and externalClient.       *)
(* SpecGw     the gateway: startup and shutdown of Spec, with the handler  *)
(*            handleGatewayRequest that picks the tool by slice position.  *)
(* SpecRelay  the relay: no startup, its handler starts hello-mcp and      *)
(*            weather-mcp on every request.                                *)
(* SpecEnv    loadConfig and resolveEnvVariables: the placeholders of the  *)
(*            Env values replaced from the process environment.            *)
(* SpecList   the external server with its tools/list tool                 *)
(*            (handleListTools).                                           *)
(* SpecLog    initializeMCPClients with the goroutines that forward each   *)
(*            child's stderr to the log.                                   *)
(* SpecHttp   the HTTP variant: startup and shutdown of Spec, with the     *)
(*            endpoints /tools and /call-tool.                             *)
(* SpecHello  the hello backend: its handlers echo, reverse, calculate.    *)
(***************************************************************************)
EXTENDS Integers, Sequences, FiniteSets, TLC

\* Number of entries of cfg.MCPStdIOServers (backend descriptors).
NBackends == 2

\* Descriptors are numbered in the order of the configuration file.
Backends == 1..NBackends

\* No backend.
None == 0

\* Value of exitCode while the gateway process has not exited.
NotExited == 0 - 1

\* Tool names a caller may ask for; "nosuch" is exported by no backend.
ToolNames == {"echo", "search", "ping", "nosuch"}

\* The tools each backend registers: "echo" is owned by backend 1 alone,
\* "search" by backend 2 alone, "ping" by every backend.  Backend 2 also
\* registers the wrapper "tools/call" (registerTools of the external server).
Exports(b) ==
    IF b = 1 THEN {"echo", "ping"}
    ELSE IF b = 2 THEN {"search", "ping", "tools/call"}
    ELSE {"ping"}

\* States of a child process in which it is alive.
Running == {"ok", "erroring", "hung"}

\* Outcomes of a client call that are errors (err != nil).
ErrKinds == {"NotInitialized", "ChannelClosed", "Rejected", "Timeout"}

VARIABLES
    backend,      \* backend[b]: "none" (not spawned), "ok", "erroring", "hung"
                  \* (alive), "exited0", "exited1" (ended by itself), "killed"
    stdIOCmds,    \* the slice stdIOCmds, as descriptor numbers
    mcpClients,   \* the slice mcpClients, as descriptor numbers
    initialized,  \* initialized[b]: client b completed Initialize
    reaped,       \* descriptors whose cmd.Wait() has been called
    pc,           \* position of main
    idx,          \* index of the loop main is in
    exitCode,     \* NotExited while running, else the process exit code
    hpc,          \* position of the tool handler: "idle", "calling", "done"
    hreq,         \* tool name of the request being handled
    hidx,         \* index of the handler's loop over mcpClients
    hcalls,       \* calls made for the current request: <<[b, out]>>
    hres,         \* what the handler returned: [err, by, text]
    chanClosed,    \* history of handleCallTool: chanClosed[b] is "no" until a
                  \* call to client b failed on its closed channel, then
                  \* "seen", and "again" once b was called after that
    cfgEnv0,
    cfgEnv,
    environ,
    cpc,
    ctodo,
    allTools,
    name,
    reader,
    stderrBuf,
    logged,
    sharedLoopVar,
    method,
    body,
    status,
    tool,
    args,
    resp,
    herr,
    applied

vars == <<backend, stdIOCmds, mcpClients, initialized, reaped, pc, idx,
          exitCode, hpc, hreq, hidx, hcalls, hres, chanClosed,
          cfgEnv0, cfgEnv, environ, cpc, ctodo,
          allTools,
          name, reader, stderrBuf, logged, sharedLoopVar,
          method, body, status,
          tool, args, resp, herr, applied>>

mainVars == <<stdIOCmds, mcpClients, initialized, reaped, pc, idx, exitCode>>
handlerVars == <<hpc, hreq, hidx, hcalls, hres, chanClosed>>
coreVars == <<backend, mainVars, handlerVars>>

\* State of loadConfig: cfgEnv0 is server.Env as decoded from the file,
\* cfgEnv the same map while resolveEnvVariables rewrites it, environ the
\* names set in the environment of the gateway process, cpc the position of
\* loadConfig, ctodo the keys the range over server.Env has not visited yet.
envVars == <<cfgEnv0, cfgEnv, environ, cpc, ctodo>>

\* allTools of the listing handlers: one entry [b, tools] per client whose
\* ListTools returned, in the order they were appended.
listVars == <<allTools>>

\* The diagnostic streams: name is the loop variable of the range over
\* cfg.MCPStdIOServers (the descriptor of the current iteration), reader[b]
\* the goroutine started for b ("none", "scanning", "ended"), stderrBuf[b]
\* the lines b wrote to its stderr pipe that were not read yet, logged the
\* lines forwarded to the log as [label, from], sharedLoopVar whether the
\* build gives the loop one variable for all iterations (language versions
\* before Go 1.22) or one per iteration.
logVars == <<name, reader, stderrBuf, logged, sharedLoopVar>>

\* State of one HTTP request of the HTTP variant: method of the request, body
\* as json.Decoder reads it ([ok] whether it decodes into the request struct,
\* clientIndex and toolName its fields), status the status code of the answer
\* (None while no answer was written).
httpVars == <<method, body, status>>

\* State of one tool call inside the hello backend: tool the tool called,
\* args the decoded arguments (text as the bytes of the string, numbers as
\* the list), resp the *mcp.ToolResponse returned ([present] FALSE for nil;
\* sum and avg as "%.2f" prints them, in hundredths), herr whether the error
\* returned is non-nil, applied how many times the handler ran on the text.
helloVars == <<tool, args, resp, herr, applied>>

NoResult == [err |-> FALSE, by |-> None, text |-> "none"]

\* Arguments and response of the hello backend before any call.
NoArgs == [text |-> <<>>, numbers |-> <<>>]

NoResponse == [present |-> FALSE, text |-> <<>>, sum |-> 0, avg |-> 0]

\* The body of a request that has none.
NoBody == [ok |-> FALSE, clientIndex |-> 0, toolName |-> "none"]

\* A deadline turns a call that gets no answer into a Timeout error.
WithDeadline(out) == IF out = "NoAnswer" THEN "Timeout" ELSE out

\* client.Initialize: the handshake exchange with backend b.
Initialize(b) ==
    IF backend[b] \notin Running THEN "ChannelClosed"
    ELSE IF backend[b] = "hung" THEN "NoAnswer"
    ELSE IF backend[b] = "erroring" THEN "Rejected"
    ELSE "ok"

\* client.ListTools on client b.
ListTools(b) ==
    IF ~initialized[b] THEN "NotInitialized"
    ELSE IF backend[b] \notin Running THEN "ChannelClosed"
    ELSE IF backend[b] = "hung" THEN "NoAnswer"
    ELSE IF backend[b] = "erroring" THEN "Rejected"
    ELSE "ok"

\* client.CallTool(ctx, t, args) on client b.  A client that never completed
\* Initialize answers with an error without writing to the pipe; a write to
\* the pipe of an ended process fails; an unknown tool is an error response.
CallTool(b, t) ==
    IF ~initialized[b] THEN "NotInitialized"
    ELSE IF backend[b] \notin Running THEN "ChannelClosed"
    ELSE IF backend[b] = "hung" THEN "NoAnswer"
    ELSE IF backend[b] = "erroring" THEN "Rejected"
    ELSE IF t \in Exports(b) THEN "ok"
    ELSE "Rejected"

\* client.Ping on client b.
Ping(b) ==
    IF ~initialized[b] THEN "NotInitialized"
    ELSE IF backend[b] \notin Running THEN "ChannelClosed"
    ELSE IF backend[b] = "hung" THEN "NoAnswer"
    ELSE IF backend[b] = "erroring" THEN "Rejected"
    ELSE "ok"

\* cmd.Wait(): nil only for a process that exited with status 0.
WaitErr(st) == st # "exited0"

Init ==
    /\ backend = [b \in Backends |-> "none"]
    /\ stdIOCmds = <<>>
    /\ mcpClients = <<>>
    /\ initialized = [b \in Backends |-> FALSE]
    /\ reaped = {}
    /\ pc = "spawn"
    /\ idx = 1
    /\ exitCode = NotExited
    /\ hpc = "idle"
    /\ hreq = "none"
    /\ hidx = 1
    /\ hcalls = <<>>
    /\ hres = NoResult
    /\ chanClosed = [b \in Backends |-> "no"]
    /\ cfgEnv0 = <<>>
    /\ cfgEnv = <<>>
    /\ environ = {}
    /\ cpc = "none"
    /\ ctodo = {}
    /\ allTools = <<>>
    /\ name = None
    /\ reader = [b \in Backends |-> "none"]
    /\ stderrBuf = [b \in Backends |-> <<>>]
    /\ logged = {}
    /\ sharedLoopVar = FALSE
    /\ method = "none"
    /\ body = NoBody
    /\ status = None
    /\ tool = "none"
    /\ args = NoArgs
    /\ resp = NoResponse
    /\ herr = FALSE
    /\ applied = None

Range(s) == {s[k] : k \in 1..Len(s)}

\* initializeMCPClients with a spawn failure logged and skipped instead of
\* log.Fatalf.
initializeMCPClients_SkipFailed ==
    /\ pc = "spawn"
    /\ \E b \in Backends \ Range(stdIOCmds), started \in BOOLEAN :
          /\ stdIOCmds' = Append(stdIOCmds, b)
          /\ IF started
             THEN /\ backend' = [backend EXCEPT ![b] = "ok"]
                  /\ mcpClients' = Append(mcpClients, b)
             ELSE UNCHANGED <<backend, mcpClients>>
          /\ pc' = IF Len(stdIOCmds) + 1 = NBackends
                   THEN "handshake" ELSE "spawn"
    /\ UNCHANGED <<initialized, reaped, idx, exitCode>>
    /\ UNCHANGED handlerVars
    /\ UNCHANGED envVars
    /\ UNCHANGED listVars
    /\ UNCHANGED logVars
    /\ UNCHANGED httpVars
    /\ UNCHANGED helloVars

\* One iteration of the loop of initializeMCPClients.  The loop ranges over a
\* Go map, so the descriptor of this iteration is any one not yet visited.
\* cmd.Start() failing is log.Fatalf: the process exits with code 1 and the
\* deferred shutdown does not run.  After a successful Start the goroutine
\* that scans the stderr pipe of the child is started.
initializeMCPClients ==
    /\ pc = "spawn"
    /\ \E b \in Backends \ Range(stdIOCmds), started \in BOOLEAN :
          /\ stdIOCmds' = Append(stdIOCmds, b)
          /\ name' = b
          /\ reader' = IF started THEN [reader EXCEPT ![b] = "scanning"]
                        ELSE reader
          /\ IF started
             THEN /\ backend' = [backend EXCEPT ![b] = "ok"]
                  /\ mcpClients' = Append(mcpClients, b)
                  /\ pc' = IF Len(stdIOCmds) + 1 = NBackends
                           THEN "handshake" ELSE "spawn"
                  /\ exitCode' = exitCode
             ELSE /\ pc' = "stopped"
                  /\ exitCode' = 1
                  /\ UNCHANGED <<backend, mcpClients>>
    /\ UNCHANGED <<initialized, reaped, idx>>
    /\ UNCHANGED handlerVars
    /\ UNCHANGED envVars
    /\ UNCHANGED listVars
    /\ UNCHANGED <<stderrBuf, logged, sharedLoopVar>>
    /\ UNCHANGED httpVars
    /\ UNCHANGED helloVars

\* initializeAndListTools with a failed Initialize treated as log.Fatalf
\* instead of log.Printf and continue.
initializeAndListTools_Fatal ==
    /\ pc = "handshake"
    /\ LET b == mcpClients[idx]
           r == WithDeadline(Initialize(b))
       IN  IF r = "ok"
           THEN /\ initialized' = [initialized EXCEPT ![b] = TRUE]
                /\ IF idx = Len(mcpClients)
                   THEN pc' = "serving" /\ idx' = 1
                   ELSE pc' = pc /\ idx' = idx + 1
                /\ exitCode' = exitCode
           ELSE /\ pc' = "stopped"
                /\ exitCode' = 1
                /\ UNCHANGED <<initialized, idx>>
    /\ UNCHANGED <<backend, stdIOCmds, mcpClients, reaped>>
    /\ UNCHANGED handlerVars
    /\ UNCHANGED envVars
    /\ UNCHANGED listVars
    /\ UNCHANGED logVars
    /\ UNCHANGED httpVars
    /\ UNCHANGED helloVars

\* One iteration of the loop of initializeAndListTools: Initialize under a
\* 15 s deadline; on an error log and continue; else ListTools under a 15 s
\* deadline, whose result is only logged.
initializeAndListTools ==
    /\ pc = "handshake"
    /\ LET b == mcpClients[idx]
           r == WithDeadline(Initialize(b))
       IN  initialized' = [initialized EXCEPT ![b] = (r = "ok")]
    /\ IF idx = Len(mcpClients)
       THEN pc' = "serving" /\ idx' = 1
       ELSE pc' = pc /\ idx' = idx + 1
    /\ UNCHANGED <<backend, stdIOCmds, mcpClients, reaped, exitCode>>
    /\ UNCHANGED handlerVars
    /\ UNCHANGED envVars
    /\ UNCHANGED listVars
    /\ UNCHANGED logVars
    /\ UNCHANGED httpVars
    /\ UNCHANGED helloVars

\* The server accepting requests while main is still in
\* initializeAndListTools, as it would with server.Serve() started first.
AcceptCall_BeforeHandshakes ==
    /\ pc \in {"handshake", "serving"}
    /\ hpc \in {"idle", "done"}
    /\ hpc' = "calling"
    /\ \E t \in ToolNames : hreq' = t
    /\ hidx' = 1
    /\ hcalls' = <<>>
    /\ hres' = NoResult
    /\ UNCHANGED <<backend, chanClosed>>
    /\ UNCHANGED mainVars
    /\ UNCHANGED envVars
    /\ UNCHANGED listVars
    /\ UNCHANGED logVars
    /\ UNCHANGED httpVars
    /\ UNCHANGED helloVars

\* The server hands a tools/call request to the handler.
AcceptCall ==
    /\ pc = "serving"
    /\ hpc \in {"idle", "done"}
    /\ \E t \in ToolNames : hreq' = t
    /\ hpc' = "calling"
    /\ hidx' = 1
    /\ hcalls' = <<>>
    /\ hres' = NoResult
    /\ UNCHANGED <<backend, chanClosed>>
    /\ UNCHANGED mainVars
    /\ UNCHANGED envVars
    /\ UNCHANGED listVars
    /\ UNCHANGED logVars
    /\ UNCHANGED httpVars
    /\ UNCHANGED helloVars

\* The history chanClosed[b] after a call to client b returned out.
ClosedSeen(h, out) ==
    IF h # "no" THEN "again"
    ELSE IF out = "ChannelClosed" THEN "seen"
    ELSE "no"

\* handleCallTool leaving out of the loop every client whose channel was seen
\* closed by an earlier call, as a registry that marks it Terminated would.
handleCallTool_SkipClosed ==
    /\ pc = "serving"
    /\ hpc = "calling"
    /\ LET b == mcpClients[hidx]
           skip == chanClosed[b] # "no"
           out == IF skip THEN "ChannelClosed" ELSE CallTool(b, hreq)
       IN  /\ out # "NoAnswer"
           /\ hcalls' = IF skip THEN hcalls
                         ELSE Append(hcalls, [b |-> b, out |-> out])
           /\ IF out = "ok"
              THEN /\ hres' = [err |-> FALSE, by |-> b, text |-> "response"]
                   /\ hpc' = "done"
                   /\ hidx' = hidx
              ELSE IF hidx = Len(mcpClients)
              THEN /\ hres' = [err |-> FALSE, by |-> None,
                               text |-> "method not found"]
                   /\ hpc' = "done"
                   /\ hidx' = hidx
              ELSE /\ hidx' = hidx + 1
                   /\ UNCHANGED <<hres, hpc>>
           /\ chanClosed' = IF skip THEN chanClosed
                             ELSE [chanClosed EXCEPT ![b] = ClosedSeen(@, out)]
    /\ UNCHANGED hreq
    /\ UNCHANGED <<backend>>
    /\ UNCHANGED mainVars
    /\ UNCHANGED envVars
    /\ UNCHANGED listVars
    /\ UNCHANGED logVars
    /\ UNCHANGED httpVars
    /\ UNCHANGED helloVars

\* handleCallTool calling the same client again after an error instead of
\* moving to the next one.
handleCallTool_Retry ==
    /\ pc = "serving"
    /\ hpc = "calling"
    /\ LET b == mcpClients[hidx]
           out == CallTool(b, hreq)
       IN  /\ out # "NoAnswer"
           /\ hcalls' = Append(hcalls, [b |-> b, out |-> out])
           /\ IF out = "ok"
              THEN /\ hres' = [err |-> FALSE, by |-> b, text |-> "response"]
                   /\ hpc' = "done"
              ELSE UNCHANGED <<hres, hpc>>
    /\ UNCHANGED <<hreq, hidx>>
    /\ UNCHANGED <<backend, chanClosed>>
    /\ UNCHANGED mainVars
    /\ UNCHANGED envVars
    /\ UNCHANGED listVars
    /\ UNCHANGED logVars
    /\ UNCHANGED httpVars
    /\ UNCHANGED helloVars

\* One iteration of the loop of handleCallTool: CallTool on the next client
\* with context.Background() (no deadline: a call that gets no answer does
\* not return).  The first nil error returns that response; when the loop
\* ends the handler returns the text "method not found" with a nil error.
handleCallTool ==
    /\ pc = "serving"
    /\ hpc = "calling"
    /\ LET b == mcpClients[hidx]
           out == CallTool(b, hreq)
       IN  /\ out # "NoAnswer"
           /\ hcalls' = Append(hcalls, [b |-> b, out |-> out])
           /\ IF out = "ok"
              THEN /\ hres' = [err |-> FALSE, by |-> b, text |-> "response"]
                   /\ hpc' = "done"
                   /\ hidx' = hidx
              ELSE IF hidx = Len(mcpClients)
              THEN /\ hres' = [err |-> FALSE, by |-> None,
                               text |-> "method not found"]
                   /\ hpc' = "done"
                   /\ hidx' = hidx
              ELSE /\ hidx' = hidx + 1
                   /\ UNCHANGED <<hres, hpc>>
           /\ chanClosed' = [chanClosed EXCEPT ![b] = ClosedSeen(@, out)]
    /\ UNCHANGED hreq
    /\ UNCHANGED <<backend>>
    /\ UNCHANGED mainVars
    /\ UNCHANGED envVars
    /\ UNCHANGED listVars
    /\ UNCHANGED logVars
    /\ UNCHANGED httpVars
    /\ UNCHANGED helloVars

\* <-stop: an interrupt or termination signal arrives; main returns and the
\* deferred shutdownMCPClients starts.
Signal ==
    /\ pc = "serving"
    /\ pc' = "ping"
    /\ idx' = 1
    /\ UNCHANGED <<backend, stdIOCmds, mcpClients, initialized, reaped, exitCode>>
    /\ UNCHANGED handlerVars
    /\ UNCHANGED envVars
    /\ UNCHANGED listVars
    /\ UNCHANGED logVars
    /\ UNCHANGED httpVars
    /\ UNCHANGED helloVars

\* server.Serve() returns an error: the goroutine sends SIGTERM on stop.
ServeError ==
    /\ pc = "serving"
    /\ pc' = "ping"
    /\ idx' = 1
    /\ UNCHANGED <<backend, stdIOCmds, mcpClients, initialized, reaped, exitCode>>
    /\ UNCHANGED handlerVars
    /\ UNCHANGED envVars
    /\ UNCHANGED listVars
    /\ UNCHANGED logVars
    /\ UNCHANGED httpVars
    /\ UNCHANGED helloVars

\* shutdownMCPClients giving up when a probe fails: if err != nil { return }
\* after client.Ping.
shutdownPing_ReturnOnError ==
    /\ pc = "ping"
    /\ LET out == WithDeadline(Ping(mcpClients[idx]))
       IN  IF out # "ok"
           THEN pc' = "stopped" /\ exitCode' = 0 /\ idx' = idx
           ELSE /\ exitCode' = exitCode
                /\ IF idx = Len(mcpClients)
                   THEN pc' = "kill" /\ idx' = 1
                   ELSE pc' = pc /\ idx' = idx + 1
    /\ UNCHANGED <<backend, stdIOCmds, mcpClients, initialized, reaped>>
    /\ UNCHANGED handlerVars
    /\ UNCHANGED envVars
    /\ UNCHANGED listVars
    /\ UNCHANGED logVars
    /\ UNCHANGED httpVars
    /\ UNCHANGED helloVars

\* First loop of shutdownMCPClients, one iteration: client.Ping under a 10 s
\* deadline, so the call returns whatever the backend does; its error is
\* logged (or dropped) and the loop goes on.
shutdownPing ==
    /\ pc = "ping"
    /\ LET out == WithDeadline(Ping(mcpClients[idx]))
       IN  out # "NoAnswer"
    /\ IF idx = Len(mcpClients)
       THEN pc' = "kill" /\ idx' = 1
       ELSE pc' = pc /\ idx' = idx + 1
    /\ UNCHANGED <<backend, stdIOCmds, mcpClients, initialized, reaped, exitCode>>
    /\ UNCHANGED handlerVars
    /\ UNCHANGED envVars
    /\ UNCHANGED listVars
    /\ UNCHANGED logVars
    /\ UNCHANGED httpVars
    /\ UNCHANGED helloVars

\* Second loop of shutdownMCPClients, one iteration: cmd.Process.Kill(), then
\* err := cmd.Wait(); if err != nil { return }.  When shutdownMCPClients
\* returns main ends and the process exits with code 0.
shutdownMCPClients ==
    /\ pc = "kill"
    /\ LET b == stdIOCmds[idx]
           st == IF backend[b] \in Running THEN "killed" ELSE backend[b]
       IN  /\ backend' = [backend EXCEPT ![b] = st]
           /\ reaped' = reaped \cup {b}
           /\ IF WaitErr(st) \/ idx = Len(stdIOCmds)
              THEN pc' = "stopped" /\ exitCode' = 0 /\ idx' = idx
              ELSE pc' = pc /\ exitCode' = exitCode /\ idx' = idx + 1
    /\ UNCHANGED <<stdIOCmds, mcpClients, initialized>>
    /\ UNCHANGED handlerVars
    /\ UNCHANGED envVars
    /\ UNCHANGED listVars
    /\ UNCHANGED logVars
    /\ UNCHANGED httpVars
    /\ UNCHANGED helloVars

\* A child process misbehaves: it starts to answer with errors, stops
\* answering, or ends by itself.
BackendFails ==
    /\ pc # "stopped"
    /\ \E b \in Backends, st \in {"erroring", "hung", "exited0", "exited1"} :
          /\ backend[b] \in Running
          /\ st \in Running => backend[b] = "ok"
          /\ backend' = [backend EXCEPT ![b] = st]
    /\ UNCHANGED mainVars
    /\ UNCHANGED handlerVars
    /\ UNCHANGED envVars
    /\ UNCHANGED listVars
    /\ UNCHANGED logVars
    /\ UNCHANGED httpVars
    /\ UNCHANGED helloVars

Next ==
    \/ initializeMCPClients
    \/ initializeAndListTools
    \/ AcceptCall
    \/ handleCallTool
    \/ Signal
    \/ ServeError
    \/ shutdownPing
    \/ shutdownMCPClients
    \/ BackendFails

Spec == Init /\ [][Next]_vars


(***************************************************************************)
(* The intermediate server: main, setupClients and handleToolCall.  Its    *)
(* two backends are fixed: helloClient and externalClient.                 *)
(***************************************************************************)
hello == 1
external == 2

InitInter ==
    /\ backend = [b \in Backends |-> "none"]
    /\ stdIOCmds = <<>>
    /\ mcpClients = <<>>
    /\ initialized = [b \in Backends |-> FALSE]
    /\ reaped = {}
    /\ pc = "start"
    /\ idx = hello
    /\ exitCode = NotExited
    /\ hpc = "idle"
    /\ hreq = "none"
    /\ hidx = 1
    /\ hcalls = <<>>
    /\ hres = NoResult
    /\ chanClosed = [b \in Backends |-> "no"]
    /\ cfgEnv0 = <<>>
    /\ cfgEnv = <<>>
    /\ environ = {}
    /\ cpc = "none"
    /\ ctodo = {}
    /\ allTools = <<>>
    /\ name = None
    /\ reader = [b \in Backends |-> "none"]
    /\ stderrBuf = [b \in Backends |-> <<>>]
    /\ logged = {}
    /\ sharedLoopVar = FALSE
    /\ method = "none"
    /\ body = NoBody
    /\ status = None
    /\ tool = "none"
    /\ args = NoArgs
    /\ resp = NoResponse
    /\ herr = FALSE
    /\ applied = None

\* setupClients, first half: helloCmd.Start(), then externalCmd.Start();
\* a failure is log.Fatalf.  After both the clients are created.
setupClientsStart ==
    /\ pc = "start"
    /\ \E started \in BOOLEAN :
          IF started
          THEN /\ backend' = [backend EXCEPT ![idx] = "ok"]
               /\ IF idx = external
                  THEN /\ pc' = "initialize"
                       /\ idx' = hello
                       /\ mcpClients' = <<hello, external>>
                  ELSE /\ pc' = pc
                       /\ idx' = external
                       /\ mcpClients' = mcpClients
               /\ exitCode' = exitCode
          ELSE /\ pc' = "stopped"
               /\ exitCode' = 1
               /\ UNCHANGED <<backend, idx, mcpClients>>
    /\ UNCHANGED <<stdIOCmds, initialized, reaped>>
    /\ UNCHANGED handlerVars
    /\ UNCHANGED envVars
    /\ UNCHANGED listVars
    /\ UNCHANGED logVars
    /\ UNCHANGED httpVars
    /\ UNCHANGED helloVars

\* setupClients, second half: helloClient.Initialize(ctx), then
\* externalClient.Initialize(ctx), both under the one ctx of 5 s made before
\* the first call; a failure is log.Fatalf.  The second call has what the
\* first one left of the 5 s: when hello answered late the deadline passes
\* before external's answer is read and the call returns the deadline error.
setupClientsInitialize ==
    /\ pc = "initialize"
    /\ \E late \in BOOLEAN :
       LET r == IF idx = external /\ late /\ Initialize(idx) = "ok"
                THEN "Timeout"
                ELSE WithDeadline(Initialize(idx))
       IN  IF r = "ok"
           THEN /\ initialized' = [initialized EXCEPT ![idx] = TRUE]
                /\ IF idx = external
                   THEN pc' = "serving" /\ idx' = hello
                   ELSE pc' = pc /\ idx' = external
                /\ exitCode' = exitCode
           ELSE /\ pc' = "stopped"
                /\ exitCode' = 1
                /\ UNCHANGED <<initialized, idx>>
    /\ UNCHANGED <<backend, stdIOCmds, mcpClients, reaped>>
    /\ UNCHANGED handlerVars
    /\ UNCHANGED envVars
    /\ UNCHANGED listVars
    /\ UNCHANGED logVars
    /\ UNCHANGED httpVars
    /\ UNCHANGED helloVars

\* The server hands a tools/call request to handleToolCall.
AcceptToolCall ==
    /\ pc = "serving"
    /\ hpc \in {"idle", "done"}
    /\ \E t \in ToolNames : hreq' = t
    /\ hpc' = "listHello"
    /\ hidx' = hello
    /\ hcalls' = <<>>
    /\ hres' = NoResult
    /\ UNCHANGED <<backend, chanClosed>>
    /\ UNCHANGED mainVars
    /\ UNCHANGED envVars
    /\ UNCHANGED listVars
    /\ UNCHANGED logVars
    /\ UNCHANGED httpVars
    /\ UNCHANGED helloVars

\* handleToolCall without the priority of helloClient: the request goes to
\* externalClient whatever helloClient lists.
handleToolCallListHello_NoPriority ==
    /\ pc = "serving"
    /\ hpc = "listHello"
    /\ ListTools(hello) # "NoAnswer"
    /\ hpc' = "listExternal"
    /\ UNCHANGED <<hreq, hidx, hcalls, hres>>
    /\ UNCHANGED <<backend, chanClosed>>
    /\ UNCHANGED mainVars
    /\ UNCHANGED envVars
    /\ UNCHANGED listVars
    /\ UNCHANGED logVars
    /\ UNCHANGED httpVars
    /\ UNCHANGED helloVars

\* handleToolCall: helloClient.ListTools(ctx, &cursor) without deadline, and
\* the search of req.Name in the list.
handleToolCallListHello ==
    /\ pc = "serving"
    /\ hpc = "listHello"
    /\ LET out == ListTools(hello)
       IN  /\ out # "NoAnswer"
           /\ hpc' = IF out = "ok" /\ hreq \in Exports(hello)
                     THEN "callHello" ELSE "listExternal"
    /\ UNCHANGED <<hreq, hidx, hcalls, hres>>
    /\ UNCHANGED <<backend, chanClosed>>
    /\ UNCHANGED mainVars
    /\ UNCHANGED envVars
    /\ UNCHANGED listVars
    /\ UNCHANGED logVars
    /\ UNCHANGED httpVars
    /\ UNCHANGED helloVars

\* handleToolCall: helloClient.CallTool(ctx, req.Name, req.Arguments); a nil
\* error returns the response, an error is logged and the handler goes on.
handleToolCallCallHello ==
    /\ pc = "serving"
    /\ hpc = "callHello"
    /\ LET out == CallTool(hello, hreq)
       IN  /\ out # "NoAnswer"
           /\ hcalls' = Append(hcalls, [b |-> hello, out |-> out])
           /\ IF out = "ok"
              THEN /\ hres' = [err |-> FALSE, by |-> hello, text |-> "response"]
                   /\ hpc' = "done"
              ELSE /\ hres' = hres
                   /\ hpc' = "listExternal"
    /\ UNCHANGED <<hreq, hidx>>
    /\ UNCHANGED <<backend, chanClosed>>
    /\ UNCHANGED mainVars
    /\ UNCHANGED envVars
    /\ UNCHANGED listVars
    /\ UNCHANGED logVars
    /\ UNCHANGED httpVars
    /\ UNCHANGED helloVars

\* handleToolCall: externalClient.ListTools(ctx, &cursor); an error is
\* log.Fatalf, which exits the process with code 1.
handleToolCallListExternal ==
    /\ pc = "serving"
    /\ hpc = "listExternal"
    /\ LET out == ListTools(external)
       IN  /\ out # "NoAnswer"
           /\ IF out = "ok"
              THEN /\ hpc' = "callExternal"
                   /\ UNCHANGED <<pc, exitCode>>
              ELSE /\ pc' = "stopped"
                   /\ exitCode' = 1
                   /\ hpc' = hpc
    /\ UNCHANGED <<hreq, hidx, hcalls, hres, chanClosed>>
    /\ UNCHANGED <<backend, stdIOCmds, mcpClients, initialized, reaped, idx>>
    /\ UNCHANGED envVars
    /\ UNCHANGED listVars
    /\ UNCHANGED logVars
    /\ UNCHANGED httpVars
    /\ UNCHANGED helloVars

\* handleToolCall: externalClient.CallTool(ctx, "tools/call", ...); a nil
\* error returns the response, else the handler returns the error
\* "no server could handle the tool".
handleToolCallCallExternal ==
    /\ pc = "serving"
    /\ hpc = "callExternal"
    /\ LET out == CallTool(external, "tools/call")
       IN  /\ out # "NoAnswer"
           /\ hcalls' = Append(hcalls, [b |-> external, out |-> out])
           /\ hres' = IF out = "ok"
                      THEN [err |-> FALSE, by |-> external, text |-> "response"]
                      ELSE [err |-> TRUE, by |-> None,
                            text |-> "no server could handle the tool"]
           /\ hpc' = "done"
    /\ UNCHANGED <<hreq, hidx>>
    /\ UNCHANGED <<backend, chanClosed>>
    /\ UNCHANGED mainVars
    /\ UNCHANGED envVars
    /\ UNCHANGED listVars
    /\ UNCHANGED logVars
    /\ UNCHANGED httpVars
    /\ UNCHANGED helloVars

\* <-stop in main of the intermediate server: a signal arrives, or
\* server.Serve() fails and the goroutine sends SIGTERM; main returns and the
\* process exits with code 0.  No child process is killed.
StopInter ==
    /\ pc = "serving"
    /\ pc' = "stopped"
    /\ exitCode' = 0
    /\ UNCHANGED <<backend, stdIOCmds, mcpClients, initialized, reaped, idx>>
    /\ UNCHANGED handlerVars
    /\ UNCHANGED envVars
    /\ UNCHANGED listVars
    /\ UNCHANGED logVars
    /\ UNCHANGED httpVars
    /\ UNCHANGED helloVars

NextInter ==
    \/ setupClientsStart
    \/ setupClientsInitialize
    \/ AcceptToolCall
    \/ handleToolCallListHello
    \/ handleToolCallCallHello
    \/ handleToolCallListExternal
    \/ handleToolCallCallExternal
    \/ StopInter
    \/ BackendFails

SpecInter == InitInter /\ [][NextInter]_vars

(***************************************************************************)
(* The gateway (two-backend program with the single tool "gateway").  Its  *)
(* startup and shutdown are those of the external server; its configuration*)
(* is a map literal with the entries "hello-mcp" and "external-mcp".       *)
(***************************************************************************)

\* The tool handleGatewayRequest calls on the client at slice position k:
\* "hello" when i == 0, "search" otherwise.
GatewayTool(k) == IF k = 1 THEN "hello" ELSE "search"

\* The server dispatches a call of the "gateway" tool to
\* handleGatewayRequest.
AcceptGateway ==
    /\ pc = "serving"
    /\ hpc \in {"idle", "done"}
    /\ hpc' = "calling"
    /\ hreq' = "gateway"
    /\ hidx' = 1
    /\ hcalls' = <<>>
    /\ hres' = NoResult
    /\ UNCHANGED <<backend, chanClosed>>
    /\ UNCHANGED mainVars
    /\ UNCHANGED envVars
    /\ UNCHANGED listVars
    /\ UNCHANGED logVars
    /\ UNCHANGED httpVars
    /\ UNCHANGED helloVars

\* handleGatewayRequest returning the error of the first call that fails,
\* without calling the clients after it.
handleGatewayRequest_AbortOnError ==
    /\ pc = "serving"
    /\ hpc = "calling"
    /\ LET b == mcpClients[hidx]
           out == WithDeadline(CallTool(b, GatewayTool(hidx)))
       IN  /\ hcalls' = Append(hcalls, [b |-> b, out |-> out])
           /\ IF out # "ok"
              THEN /\ hidx' = hidx
                   /\ hpc' = "done"
                   /\ hres' = [err |-> TRUE, by |-> None, text |-> out]
              ELSE IF hidx < Len(mcpClients)
              THEN /\ hidx' = hidx + 1
                   /\ UNCHANGED <<hres, hpc>>
              ELSE /\ hidx' = hidx
                   /\ hpc' = "done"
                   /\ hres' = [err |-> FALSE, by |-> None, text |-> "combined"]
    /\ UNCHANGED <<hreq, chanClosed>>
    /\ UNCHANGED mainVars
    /\ UNCHANGED <<backend>>
    /\ UNCHANGED envVars
    /\ UNCHANGED listVars
    /\ UNCHANGED logVars
    /\ UNCHANGED httpVars
    /\ UNCHANGED helloVars

\* One iteration of the loop of handleGatewayRequest: the call chosen by
\* the position i under a 5 s deadline, its response or error appended to
\* responses.  After the loop the first two entries are joined and returned
\* with a nil error; with fewer than two clients responses[1] is out of
\* range and the program panics.
handleGatewayRequest ==
    /\ pc = "serving"
    /\ hpc = "calling"
    /\ LET b == mcpClients[hidx]
           out == WithDeadline(CallTool(b, GatewayTool(hidx)))
       IN  /\ hcalls' = Append(hcalls, [b |-> b, out |-> out])
           /\ IF hidx < Len(mcpClients)
              THEN /\ hidx' = hidx + 1
                   /\ UNCHANGED <<hres, hpc, pc, exitCode>>
              ELSE /\ hidx' = hidx
                   /\ hpc' = "done"
                   /\ IF Len(mcpClients) < 2
                      THEN /\ pc' = "stopped"
                           /\ exitCode' = 2
                           /\ hres' = hres
                      ELSE /\ hres' = [err |-> FALSE, by |-> None,
                                       text |-> "combined"]
                           /\ UNCHANGED <<pc, exitCode>>
    /\ UNCHANGED <<hreq, chanClosed>>
    /\ UNCHANGED <<backend, stdIOCmds, mcpClients, initialized, reaped, idx>>
    /\ UNCHANGED envVars
    /\ UNCHANGED listVars
    /\ UNCHANGED logVars
    /\ UNCHANGED httpVars
    /\ UNCHANGED helloVars

NextGw ==
    \/ initializeMCPClients
    \/ initializeAndListTools
    \/ AcceptGateway
    \/ handleGatewayRequest
    \/ Signal
    \/ ServeError
    \/ shutdownPing
    \/ shutdownMCPClients
    \/ BackendFails

SpecGw == Init /\ [][NextGw]_vars

(***************************************************************************)
(* The relay (program with the single tool "relay").  It has no startup    *)
(* and no shutdown code: its handler starts hello-mcp and weather-mcp      *)
(* itself, on every request.                                               *)
(***************************************************************************)

weather == 2

\* The relay is not made to start more child processes than this.
MaxChildren == 6

\* The tool the relay handler calls on each of its two children.
RelayTool(b) == IF b = hello THEN "hello" ELSE "weather"

\* main of the relay: the tool is registered and server.Serve() runs; no
\* child process exists.  stdIOCmds lists every child process started so
\* far, backend[b] is the state of the one started last for b.
InitRelay ==
    /\ backend = [b \in Backends |-> "none"]
    /\ stdIOCmds = <<>>
    /\ mcpClients = <<>>
    /\ initialized = [b \in Backends |-> FALSE]
    /\ reaped = {}
    /\ pc = "serving"
    /\ idx = 1
    /\ exitCode = NotExited
    /\ hpc = "idle"
    /\ hreq = "none"
    /\ hidx = hello
    /\ hcalls = <<>>
    /\ hres = NoResult
    /\ chanClosed = [b \in Backends |-> "no"]
    /\ cfgEnv0 = <<>>
    /\ cfgEnv = <<>>
    /\ environ = {}
    /\ cpc = "none"
    /\ ctodo = {}
    /\ allTools = <<>>
    /\ name = None
    /\ reader = [b \in Backends |-> "none"]
    /\ stderrBuf = [b \in Backends |-> <<>>]
    /\ logged = {}
    /\ sharedLoopVar = FALSE
    /\ method = "none"
    /\ body = NoBody
    /\ status = None
    /\ tool = "none"
    /\ args = NoArgs
    /\ resp = NoResponse
    /\ herr = FALSE
    /\ applied = None

\* The server dispatches a call of the "relay" tool to the handler.
AcceptRelay ==
    /\ pc = "serving"
    /\ hpc \in {"idle", "done"}
    /\ Len(stdIOCmds) + 2 <= MaxChildren
    /\ hpc' = "start"
    /\ hreq' = "relay"
    /\ hidx' = hello
    /\ hcalls' = <<>>
    /\ hres' = NoResult
    /\ UNCHANGED <<backend, chanClosed>>
    /\ UNCHANGED mainVars
    /\ UNCHANGED envVars
    /\ UNCHANGED listVars
    /\ UNCHANGED logVars
    /\ UNCHANGED httpVars
    /\ UNCHANGED helloVars

\* Relay handler: exec.Command(path) and cmd.Start() for the child hidx,
\* then a new client on its pipes; a Start error is returned to the caller.
relayStart ==
    /\ pc = "serving"
    /\ hpc = "start"
    /\ \E started \in BOOLEAN :
          IF started
          THEN /\ backend' = [backend EXCEPT ![hidx] = "ok"]
               /\ initialized' = [initialized EXCEPT ![hidx] = FALSE]
               /\ stdIOCmds' = Append(stdIOCmds, hidx)
               /\ hpc' = "initialize"
               /\ hres' = hres
          ELSE /\ hpc' = "done"
               /\ hres' = [err |-> TRUE, by |-> None, text |-> "failed to start"]
               /\ UNCHANGED <<backend, initialized, stdIOCmds>>
    /\ UNCHANGED <<hreq, hidx, hcalls, chanClosed>>
    /\ UNCHANGED <<mcpClients, reaped, pc, idx, exitCode>>
    /\ UNCHANGED envVars
    /\ UNCHANGED listVars
    /\ UNCHANGED logVars
    /\ UNCHANGED httpVars
    /\ UNCHANGED helloVars

\* Relay handler: client.Initialize(ctx) with ctx := context.Background();
\* an error is returned to the caller.
relayInitialize ==
    /\ pc = "serving"
    /\ hpc = "initialize"
    /\ LET out == Initialize(hidx)
       IN  /\ out # "NoAnswer"
           /\ IF out = "ok"
              THEN /\ initialized' = [initialized EXCEPT ![hidx] = TRUE]
                   /\ hpc' = "call"
                   /\ hres' = hres
              ELSE /\ initialized' = initialized
                   /\ hpc' = "done"
                   /\ hres' = [err |-> TRUE, by |-> None, text |-> "init error"]
    /\ UNCHANGED <<hreq, hidx, hcalls, chanClosed>>
    /\ UNCHANGED <<backend, stdIOCmds, mcpClients, reaped, pc, idx, exitCode>>
    /\ UNCHANGED envVars
    /\ UNCHANGED listVars
    /\ UNCHANGED logVars
    /\ UNCHANGED httpVars
    /\ UNCHANGED helloVars

\* Relay handler: client.CallTool(ctx, "hello" or "weather", args) without
\* deadline; an error is returned to the caller; after hello's response the
\* handler goes on to weather-mcp, after weather's it returns both.  The
\* binaries at the two paths are not among the sources: whether one
\* registers the tool called is open.
relayCallTool ==
    /\ pc = "serving"
    /\ hpc = "call"
    /\ \E registers \in BOOLEAN :
       LET out == IF registers /\ CallTool(hidx, RelayTool(hidx)) = "Rejected"
                     /\ backend[hidx] = "ok"
                  THEN "ok"
                  ELSE CallTool(hidx, RelayTool(hidx))
       IN  /\ out # "NoAnswer"
           /\ hcalls' = Append(hcalls, [b |-> hidx, out |-> out])
           /\ IF out # "ok"
              THEN /\ hpc' = "done"
                   /\ hidx' = hidx
                   /\ hres' = [err |-> TRUE, by |-> None, text |-> "call error"]
              ELSE IF hidx = hello
              THEN /\ hpc' = "start"
                   /\ hidx' = weather
                   /\ hres' = hres
              ELSE /\ hpc' = "done"
                   /\ hidx' = hidx
                   /\ hres' = [err |-> FALSE, by |-> None, text |-> "combined"]
    /\ UNCHANGED <<hreq, chanClosed>>
    /\ UNCHANGED <<backend>>
    /\ UNCHANGED mainVars
    /\ UNCHANGED envVars
    /\ UNCHANGED listVars
    /\ UNCHANGED logVars
    /\ UNCHANGED httpVars
    /\ UNCHANGED helloVars

\* server.Serve() returns an error in main of the relay: panic(err).
relayPanic ==
    /\ pc = "serving"
    /\ pc' = "stopped"
    /\ exitCode' = 2
    /\ UNCHANGED <<backend, stdIOCmds, mcpClients, initialized, reaped, idx>>
    /\ UNCHANGED handlerVars
    /\ UNCHANGED envVars
    /\ UNCHANGED listVars
    /\ UNCHANGED logVars
    /\ UNCHANGED httpVars
    /\ UNCHANGED helloVars

\* A child of the relay starts to answer with errors or stops answering.
\* It does not end: the relay keeps its pipes open and never signals it.
relayChildFails ==
    /\ pc # "stopped"
    /\ \E b \in {hello, weather}, st \in {"erroring", "hung"} :
          /\ backend[b] = "ok"
          /\ backend' = [backend EXCEPT ![b] = st]
    /\ UNCHANGED mainVars
    /\ UNCHANGED handlerVars
    /\ UNCHANGED envVars
    /\ UNCHANGED listVars
    /\ UNCHANGED logVars
    /\ UNCHANGED httpVars
    /\ UNCHANGED helloVars

NextRelay ==
    \/ AcceptRelay
    \/ relayStart
    \/ relayInitialize
    \/ relayCallTool
    \/ relayPanic
    \/ relayChildFails

SpecRelay == InitRelay /\ [][NextRelay]_vars

(***************************************************************************)
(* loadConfig and resolveEnvVariables (external server and HTTP variant).  *)
(* Strings are sequences of characters.                                    *)
(***************************************************************************)

\* Characters of the Env values: those of the placeholder syntax and a
\* letter.
Chars == {"$", "{", "}", "a"}

\* Longest Env value.
MaxValueLen == 4

\* The strings of at most n characters.
Strings(n) == UNION {[1..k -> Chars] : k \in 0..n}

\* Keys of server.Env in the configuration file.
EnvKeys == {"K1", "K2"}

\* Names that may be set in the environment of the gateway.
EnvNames == {<<"a">>, <<"}">>}

\* strings.HasPrefix(s, p)
HasPrefix(s, p) == Len(s) >= Len(p) /\ SubSeq(s, 1, Len(p)) = p

\* strings.HasSuffix(s, p)
HasSuffix(s, p) ==
    Len(s) >= Len(p) /\ SubSeq(s, Len(s) - Len(p) + 1, Len(s)) = p

RECURSIVE TrimLeft(_, _)
\* strings.TrimLeft(s, cutset): leading characters of the cutset removed.
TrimLeft(s, cutset) ==
    IF s # <<>> /\ s[1] \in cutset THEN TrimLeft(Tail(s), cutset) ELSE s

RECURSIVE TrimRight(_, _)
\* strings.TrimRight(s, cutset): trailing characters of the cutset removed.
TrimRight(s, cutset) ==
    IF s # <<>> /\ s[Len(s)] \in cutset
    THEN TrimRight(SubSeq(s, 1, Len(s) - 1), cutset)
    ELSE s

\* strings.Trim(s, cutset): every leading and trailing character that is in
\* the cutset is removed.
Trim(s, cutset) == TrimRight(TrimLeft(s, cutset), cutset)

\* os.LookupEnv(n): whether n is set, and its value (each variable holds a
\* value of its own: "=" followed by its name).
LookupEnv(n) == [found |-> n \in environ, value |-> <<"=">> \o n]

\* The configuration file holds any Env values; any of the names is set in
\* the environment; main is about to call loadConfig.
InitEnv ==
    /\ backend = [b \in Backends |-> "none"]
    /\ stdIOCmds = <<>>
    /\ mcpClients = <<>>
    /\ initialized = [b \in Backends |-> FALSE]
    /\ reaped = {}
    /\ pc = "spawn"
    /\ idx = 1
    /\ exitCode = NotExited
    /\ hpc = "idle"
    /\ hreq = "none"
    /\ hidx = 1
    /\ hcalls = <<>>
    /\ hres = NoResult
    /\ chanClosed = [b \in Backends |-> "no"]
    /\ cfgEnv0 \in [EnvKeys -> Strings(MaxValueLen)]
    /\ cfgEnv = cfgEnv0
    /\ environ \in SUBSET EnvNames
    /\ cpc = "open"
    /\ ctodo = EnvKeys
    /\ allTools = <<>>
    /\ name = None
    /\ reader = [b \in Backends |-> "none"]
    /\ stderrBuf = [b \in Backends |-> <<>>]
    /\ logged = {}
    /\ sharedLoopVar = FALSE
    /\ method = "none"
    /\ body = NoBody
    /\ status = None
    /\ tool = "none"
    /\ args = NoArgs
    /\ resp = NoResponse
    /\ herr = FALSE
    /\ applied = None

\* loadConfig: os.Open and json Decode; either failure is log.Fatalf.
loadConfig ==
    /\ cpc = "open"
    /\ \E parsed \in BOOLEAN :
          IF parsed
          THEN cpc' = "resolve" /\ UNCHANGED <<pc, exitCode>>
          ELSE cpc' = "fatalFile" /\ pc' = "stopped" /\ exitCode' = 1
    /\ UNCHANGED <<cfgEnv0, cfgEnv, environ, ctodo>>
    /\ UNCHANGED <<backend, stdIOCmds, mcpClients, initialized, reaped, idx>>
    /\ UNCHANGED handlerVars
    /\ UNCHANGED listVars
    /\ UNCHANGED logVars
    /\ UNCHANGED httpVars
    /\ UNCHANGED helloVars

\* resolveEnvVariables, one iteration of the range over server.Env (a map:
\* any key not visited yet): a value with the prefix "${" and the suffix "}"
\* is replaced by os.LookupEnv(strings.Trim(value, "${}")), and log.Fatalf
\* when that name is not set.
resolveEnvVariables ==
    /\ cpc = "resolve"
    /\ \E key \in ctodo :
       LET value == cfgEnv[key]
           envVar == Trim(value, {"$", "{", "}"})
           fatal == /\ HasPrefix(value, <<"$", "{">>)
                    /\ HasSuffix(value, <<"}">>)
                    /\ ~LookupEnv(envVar).found
       IN  /\ cfgEnv' = IF /\ HasPrefix(value, <<"$", "{">>)
                           /\ HasSuffix(value, <<"}">>)
                           /\ LookupEnv(envVar).found
                        THEN [cfgEnv EXCEPT ![key] = LookupEnv(envVar).value]
                        ELSE cfgEnv
           /\ ctodo' = IF fatal THEN ctodo ELSE ctodo \ {key}
           /\ cpc' = IF fatal THEN "fatalEnv"
                     ELSE IF ctodo = {key} THEN "loaded" ELSE cpc
           /\ pc' = IF fatal THEN "stopped" ELSE pc
           /\ exitCode' = IF fatal THEN 1 ELSE exitCode
    /\ UNCHANGED <<cfgEnv0, environ>>
    /\ UNCHANGED <<backend, stdIOCmds, mcpClients, initialized, reaped, idx>>
    /\ UNCHANGED handlerVars
    /\ UNCHANGED listVars
    /\ UNCHANGED logVars
    /\ UNCHANGED httpVars
    /\ UNCHANGED helloVars

NextEnv ==
    \/ loadConfig
    \/ resolveEnvVariables

SpecEnv == InitEnv /\ [][NextEnv]_vars

(***************************************************************************)
(* The tools/list tool of the external server.                             *)
(***************************************************************************)

\* The server hands a tools/list request to the handler.
AcceptList ==
    /\ pc = "serving"
    /\ hpc \in {"idle", "done"}
    /\ hpc' = "listing"
    /\ hreq' = "tools/list"
    /\ hidx' = 1
    /\ hcalls' = <<>>
    /\ hres' = NoResult
    /\ allTools' = <<>>
    /\ UNCHANGED <<backend, chanClosed>>
    /\ UNCHANGED mainVars
    /\ UNCHANGED envVars
    /\ UNCHANGED logVars
    /\ UNCHANGED httpVars
    /\ UNCHANGED helloVars

\* handleListTools, one iteration of its loop: client.ListTools with
\* context.Background() (no deadline); an error skips the client, else each
\* of its tools is appended to allTools.  After the loop the list is
\* marshalled and returned with a nil error.
handleListTools ==
    /\ pc = "serving"
    /\ hpc = "listing"
    /\ LET b == mcpClients[hidx]
           out == ListTools(b)
       IN  /\ out # "NoAnswer"
           /\ hcalls' = Append(hcalls, [b |-> b, out |-> out])
           /\ allTools' = IF out = "ok"
                          THEN Append(allTools, [b |-> b, tools |-> Exports(b)])
                          ELSE allTools
           /\ IF hidx = Len(mcpClients)
              THEN /\ hpc' = "done"
                   /\ hidx' = hidx
                   /\ hres' = [err |-> FALSE, by |-> None, text |-> "tools"]
              ELSE /\ hidx' = hidx + 1
                   /\ UNCHANGED <<hpc, hres>>
    /\ UNCHANGED <<hreq, chanClosed>>
    /\ UNCHANGED <<backend>>
    /\ UNCHANGED mainVars
    /\ UNCHANGED envVars
    /\ UNCHANGED logVars
    /\ UNCHANGED httpVars
    /\ UNCHANGED helloVars

NextList ==
    \/ initializeMCPClients
    \/ initializeAndListTools
    \/ AcceptList
    \/ handleListTools
    \/ Signal
    \/ ServeError
    \/ shutdownPing
    \/ shutdownMCPClients
    \/ BackendFails

SpecList == Init /\ [][NextList]_vars

(***************************************************************************)
(* The stderr readers of initializeMCPClients (external server and HTTP    *)
(* variant: go func() { ... name ... }() inside the range loop).           *)
(***************************************************************************)

\* Capacity of a stderr pipe, in lines written and not read yet.
MaxPending == 2

\* A line is either within bufio.MaxScanTokenSize or longer than it.
LineKinds == {"line", "tooLong"}

\* The program is about to start its children; the build is either kind.
InitLog ==
    /\ backend = [b \in Backends |-> "none"]
    /\ stdIOCmds = <<>>
    /\ mcpClients = <<>>
    /\ initialized = [b \in Backends |-> FALSE]
    /\ reaped = {}
    /\ pc = "spawn"
    /\ idx = 1
    /\ exitCode = NotExited
    /\ hpc = "idle"
    /\ hreq = "none"
    /\ hidx = 1
    /\ hcalls = <<>>
    /\ hres = NoResult
    /\ chanClosed = [b \in Backends |-> "no"]
    /\ cfgEnv0 = <<>>
    /\ cfgEnv = <<>>
    /\ environ = {}
    /\ cpc = "none"
    /\ ctodo = {}
    /\ allTools = <<>>
    /\ name = None
    /\ reader = [b \in Backends |-> "none"]
    /\ stderrBuf = [b \in Backends |-> <<>>]
    /\ logged = {}
    /\ sharedLoopVar \in BOOLEAN
    /\ method = "none"
    /\ body = NoBody
    /\ status = None
    /\ tool = "none"
    /\ args = NoArgs
    /\ resp = NoResponse
    /\ herr = FALSE
    /\ applied = None

\* A running child writes a line to its stderr.
backendWrites ==
    /\ \E b \in Backends, kind \in LineKinds :
          /\ backend[b] \in Running
          /\ Len(stderrBuf[b]) < MaxPending
          /\ stderrBuf' = [stderrBuf EXCEPT ![b] = Append(@, kind)]
    /\ UNCHANGED <<name, reader, logged, sharedLoopVar>>
    /\ UNCHANGED coreVars
    /\ UNCHANGED envVars
    /\ UNCHANGED listVars
    /\ UNCHANGED httpVars
    /\ UNCHANGED helloVars

\* The label the goroutine of child b prints: the closure reads the loop
\* variable name when it logs.  With one variable per iteration that is b's
\* own name; with one variable for the whole loop it is whatever the loop has
\* put there by now.
Label(b) == IF sharedLoopVar THEN name ELSE b

\* The goroutine of child b, one turn of for scanner.Scan() { log.Printf }:
\* a line is read and logged with the label; a line longer than the
\* scanner's buffer, or the end of the stream, makes Scan return false and
\* the goroutine ends.
readerScan ==
    /\ \E b \in Backends :
          /\ reader[b] = "scanning"
          /\ IF stderrBuf[b] # <<>>
             THEN IF Head(stderrBuf[b]) = "tooLong"
                  THEN /\ reader' = [reader EXCEPT ![b] = "ended"]
                       /\ UNCHANGED <<stderrBuf, logged>>
                  ELSE /\ logged' = logged \cup {[label |-> Label(b), from |-> b]}
                       /\ stderrBuf' = [stderrBuf EXCEPT ![b] = Tail(@)]
                       /\ reader' = reader
             ELSE /\ backend[b] \notin Running
                  /\ reader' = [reader EXCEPT ![b] = "ended"]
                  /\ UNCHANGED <<stderrBuf, logged>>
    /\ UNCHANGED <<name, sharedLoopVar>>
    /\ UNCHANGED coreVars
    /\ UNCHANGED envVars
    /\ UNCHANGED listVars
    /\ UNCHANGED httpVars
    /\ UNCHANGED helloVars

\* A child writes to its full stderr pipe while no goroutine reads it: the
\* write does not return and the child stops answering.
backendBlocks ==
    /\ \E b \in Backends :
          /\ backend[b] \in {"ok", "erroring"}
          /\ Len(stderrBuf[b]) = MaxPending
          /\ reader[b] # "scanning"
          /\ backend' = [backend EXCEPT ![b] = "hung"]
    /\ UNCHANGED mainVars
    /\ UNCHANGED handlerVars
    /\ UNCHANGED envVars
    /\ UNCHANGED listVars
    /\ UNCHANGED logVars
    /\ UNCHANGED httpVars
    /\ UNCHANGED helloVars

NextLog ==
    \/ initializeMCPClients
    \/ backendWrites
    \/ readerScan
    \/ backendBlocks
    \/ BackendFails

SpecLog == InitLog /\ [][NextLog]_vars

(***************************************************************************)
(* The HTTP variant: main starts the children as the external server does  *)
(* and then serves /tools and /call-tool over HTTP (startHTTPServer).      *)
(***************************************************************************)

\* Methods of the requests that arrive.
Methods == {"GET", "POST", "PUT"}

\* Tool names in the bodies that arrive.
HttpToolNames == {"echo", "nosuch"}

\* Bodies of the requests to /call-tool: one that json.Decoder rejects, and
\* the ones that decode, with a clientIndex below, inside and above 1..N (a
\* body without the field decodes to clientIndex 0).
Bodies ==
    {NoBody} \cup
    [ok : {TRUE}, clientIndex : (0 - 1)..(NBackends + 1),
     toolName : HttpToolNames]

\* A GET or any other request arrives at /tools.
AcceptTools ==
    /\ pc = "serving"
    /\ hpc \in {"idle", "done"}
    /\ \E m \in Methods : method' = m
    /\ body' = NoBody
    /\ status' = None
    /\ hpc' = "tools"
    /\ hreq' = "/tools"
    /\ hidx' = 1
    /\ hcalls' = <<>>
    /\ hres' = NoResult
    /\ allTools' = <<>>
    /\ UNCHANGED <<backend, chanClosed>>
    /\ UNCHANGED mainVars
    /\ UNCHANGED envVars
    /\ UNCHANGED logVars
    /\ UNCHANGED helloVars

\* The /tools handler stopping at the first listing that fails, with
\* http.Error and status 500.
toolsEndpoint_AbortOnError ==
    /\ pc = "serving"
    /\ hpc = "tools"
    /\ IF method # "GET"
       THEN /\ status' = 405
            /\ hpc' = "done"
            /\ hres' = [err |-> TRUE, by |-> None, text |-> "Method not allowed"]
            /\ UNCHANGED <<hidx, hcalls, allTools>>
       ELSE LET b == mcpClients[hidx]
                out == WithDeadline(ListTools(b))
            IN  /\ hcalls' = Append(hcalls, [b |-> b, out |-> out])
                /\ allTools' =
                     IF out = "ok"
                     THEN Append(allTools, [b |-> b, clientIndex |-> hidx,
                                            tools |-> Exports(b)])
                     ELSE allTools
                /\ IF out # "ok"
                   THEN /\ hpc' = "done"
                        /\ status' = 500
                        /\ hidx' = hidx
                        /\ hres' = [err |-> TRUE, by |-> None, text |-> "tools"]
                   ELSE IF hidx = Len(mcpClients)
                   THEN /\ hpc' = "done"
                        /\ status' = 200
                        /\ hidx' = hidx
                        /\ hres' = [err |-> FALSE, by |-> None, text |-> "tools"]
                   ELSE /\ hidx' = hidx + 1
                        /\ UNCHANGED <<hpc, hres, status>>
    /\ UNCHANGED <<hreq, method, body>>
    /\ UNCHANGED <<backend, chanClosed>>
    /\ UNCHANGED mainVars
    /\ UNCHANGED envVars
    /\ UNCHANGED logVars
    /\ UNCHANGED helloVars

\* The /tools handler.  A method other than GET is answered 405.  Else one
\* iteration of its loop: client.ListTools under a deadline of 10 s of its
\* own; an error is logged and the client skipped, else the entry
\* {"clientIndex": i+1, "tools": tools.Tools} is appended.  After the loop
\* the list is encoded into the answer (status 200).
toolsEndpoint ==
    /\ pc = "serving"
    /\ hpc = "tools"
    /\ IF method # "GET"
       THEN /\ status' = 405
            /\ hpc' = "done"
            /\ hres' = [err |-> TRUE, by |-> None, text |-> "Method not allowed"]
            /\ UNCHANGED <<hidx, hcalls, allTools>>
       ELSE LET b == mcpClients[hidx]
                out == WithDeadline(ListTools(b))
            IN  /\ hcalls' = Append(hcalls, [b |-> b, out |-> out])
                /\ allTools' =
                     IF out = "ok"
                     THEN Append(allTools, [b |-> b, clientIndex |-> hidx,
                                            tools |-> Exports(b)])
                     ELSE allTools
                /\ IF hidx = Len(mcpClients)
                   THEN /\ hpc' = "done"
                        /\ status' = 200
                        /\ hidx' = hidx
                        /\ hres' = [err |-> FALSE, by |-> None, text |-> "tools"]
                   ELSE /\ hidx' = hidx + 1
                        /\ UNCHANGED <<hpc, hres, status>>
    /\ UNCHANGED <<hreq, method, body>>
    /\ UNCHANGED <<backend, chanClosed>>
    /\ UNCHANGED mainVars
    /\ UNCHANGED envVars
    /\ UNCHANGED logVars
    /\ UNCHANGED helloVars

\* A request arrives at /call-tool.
AcceptCallTool ==
    /\ pc = "serving"
    /\ hpc \in {"idle", "done"}
    /\ \E m \in Methods : method' = m
    /\ \E bd \in Bodies : body' = bd
    /\ status' = None
    /\ hpc' = "call-tool"
    /\ hreq' = "/call-tool"
    /\ hidx' = 1
    /\ hcalls' = <<>>
    /\ hres' = NoResult
    /\ UNCHANGED <<backend, chanClosed>>
    /\ UNCHANGED mainVars
    /\ UNCHANGED envVars
    /\ UNCHANGED listVars
    /\ UNCHANGED logVars
    /\ UNCHANGED helloVars

\* The /call-tool handler with the range test request.ClientIndex < 0 in
\* place of <= 0; position -1 of the slice is taken as its last element.
callToolEndpoint_OffByOne ==
    /\ pc = "serving"
    /\ hpc = "call-tool"
    /\ IF method # "POST"
       THEN /\ status' = 405
            /\ hres' = [err |-> TRUE, by |-> None, text |-> "Method not allowed"]
            /\ hcalls' = hcalls
       ELSE IF ~body.ok
       THEN /\ status' = 400
            /\ hres' = [err |-> TRUE, by |-> None, text |-> "Invalid request body"]
            /\ hcalls' = hcalls
       ELSE IF body.clientIndex < 0 \/ body.clientIndex > Len(mcpClients)
       THEN /\ status' = 400
            /\ hres' = [err |-> TRUE, by |-> None, text |-> "Invalid client index"]
            /\ hcalls' = hcalls
       ELSE LET b == mcpClients[IF body.clientIndex = 0 THEN Len(mcpClients)
                                ELSE body.clientIndex]
                out == WithDeadline(CallTool(b, body.toolName))
            IN  /\ hcalls' = Append(hcalls, [b |-> b, out |-> out])
                /\ status' = IF out = "ok" THEN 200 ELSE 500
                /\ hres' = IF out = "ok"
                           THEN [err |-> FALSE, by |-> b, text |-> "response"]
                           ELSE [err |-> TRUE, by |-> None,
                                 text |-> "Tool call failed"]
    /\ hpc' = "done"
    /\ UNCHANGED <<hreq, hidx, method, body>>
    /\ UNCHANGED <<backend, chanClosed>>
    /\ UNCHANGED mainVars
    /\ UNCHANGED envVars
    /\ UNCHANGED listVars
    /\ UNCHANGED logVars
    /\ UNCHANGED helloVars

\* The /call-tool handler: 405 unless the method is POST; 400 when the body
\* does not decode; 400 when ClientIndex <= 0 or > len(mcpClients); else
\* client := mcpClients[ClientIndex-1] (element ClientIndex of the sequence,
\* which counts from 1) and one client.CallTool under a deadline of 30 s: an
\* error is answered 500, else the response is encoded (status 200).
callToolEndpoint ==
    /\ pc = "serving"
    /\ hpc = "call-tool"
    /\ IF method # "POST"
       THEN /\ status' = 405
            /\ hres' = [err |-> TRUE, by |-> None, text |-> "Method not allowed"]
            /\ hcalls' = hcalls
       ELSE IF ~body.ok
       THEN /\ status' = 400
            /\ hres' = [err |-> TRUE, by |-> None, text |-> "Invalid request body"]
            /\ hcalls' = hcalls
       ELSE IF body.clientIndex <= 0 \/ body.clientIndex > Len(mcpClients)
       THEN /\ status' = 400
            /\ hres' = [err |-> TRUE, by |-> None, text |-> "Invalid client index"]
            /\ hcalls' = hcalls
       ELSE LET b == mcpClients[(body.clientIndex - 1) + 1]
                out == WithDeadline(CallTool(b, body.toolName))
            IN  /\ hcalls' = Append(hcalls, [b |-> b, out |-> out])
                /\ status' = IF out = "ok" THEN 200 ELSE 500
                /\ hres' = IF out = "ok"
                           THEN [err |-> FALSE, by |-> b, text |-> "response"]
                           ELSE [err |-> TRUE, by |-> None,
                                 text |-> "Tool call failed"]
    /\ hpc' = "done"
    /\ UNCHANGED <<hreq, hidx, method, body>>
    /\ UNCHANGED <<backend, chanClosed>>
    /\ UNCHANGED mainVars
    /\ UNCHANGED envVars
    /\ UNCHANGED listVars
    /\ UNCHANGED logVars
    /\ UNCHANGED helloVars

\* srv.ListenAndServe() fails (the port is taken): log.Fatalf in the
\* goroutine ends the process with code 1 and runs no deferred call.
ListenAndServeFatal ==
    /\ pc = "serving"
    /\ pc' = "stopped"
    /\ exitCode' = 1
    /\ UNCHANGED <<backend, stdIOCmds, mcpClients, initialized, reaped, idx>>
    /\ UNCHANGED handlerVars
    /\ UNCHANGED envVars
    /\ UNCHANGED listVars
    /\ UNCHANGED logVars
    /\ UNCHANGED httpVars
    /\ UNCHANGED helloVars

NextHttp ==
    \/ initializeMCPClients
    \/ initializeAndListTools
    \/ AcceptTools
    \/ toolsEndpoint
    \/ AcceptCallTool
    \/ callToolEndpoint
    \/ Signal
    \/ ListenAndServeFatal
    \/ shutdownPing
    \/ shutdownMCPClients
    \/ BackendFails

SpecHttp == Init /\ [][NextHttp]_vars

(***************************************************************************)
(* The hello backend (hello_mcp/main.go): the handlers of its tools echo,  *)
(* reverse and calculate, each a function of the arguments of one call.    *)
(* A text is the sequence of the bytes of a Go string; the arguments reach *)
(* a handler through the JSON decoder, which yields valid UTF-8.           *)
(***************************************************************************)

\* Longest text (in characters) and longest list of numbers of a call.
MaxLen == 3

\* The numbers of a list lie in -1 .. MaxNumber.
MaxNumber == 2

\* Code points of the texts: a letter, the space, a letter of two bytes and
\* U+FFFD, the replacement character (three bytes).
RuneSet == {"a", " ", "e-acute", "U+FFFD"}

\* string(rune): the UTF-8 encoding of one code point.
EncodeRune(r) ==
    IF r = "a" THEN <<"61">>
    ELSE IF r = " " THEN <<"20">>
    ELSE IF r = "e-acute" THEN <<"C3", "A9">>
    ELSE <<"EF", "BF", "BD">>

RECURSIVE String(_)
\* string(runes): the encodings of the code points, one after the other.
String(runes) ==
    IF runes = <<>> THEN <<>>
    ELSE EncodeRune(Head(runes)) \o String(Tail(runes))

\* utf8.DecodeRuneInString(s) for a non-empty s: the first code point and its
\* width in bytes; bytes that start no valid encoding give U+FFFD, width 1.
DecodeRune(s) ==
    IF s[1] = "61" THEN [r |-> "a", size |-> 1]
    ELSE IF s[1] = "20" THEN [r |-> " ", size |-> 1]
    ELSE IF s[1] = "C3" /\ Len(s) >= 2 /\ s[2] = "A9"
    THEN [r |-> "e-acute", size |-> 2]
    ELSE IF s[1] = "EF" /\ Len(s) >= 3 /\ s[2] = "BF" /\ s[3] = "BD"
    THEN [r |-> "U+FFFD", size |-> 3]
    ELSE [r |-> "U+FFFD", size |-> 1]

RECURSIVE Runes(_)
\* []rune(s): the code points of s in order.
Runes(s) ==
    IF s = <<>> THEN <<>>
    ELSE LET d == DecodeRune(s)
         IN  <<d.r>> \o Runes(SubSeq(s, d.size + 1, Len(s)))

\* The loop of reverseHandler: runes[i] and runes[j] swapped from both ends
\* to the middle.
Swapped(runes) == [i \in 1..Len(runes) |-> runes[Len(runes) + 1 - i]]

\* reverseHandler on the bytes of the text, without the conversion to runes.
ReverseText_Bytes(text) == Swapped(text)

\* The text reverseHandler returns for args.Text.
ReverseText(text) == String(Swapped(Runes(text)))

\* All sequences over S of length up to n.
SeqsUpTo(S, n) == UNION {[1..k -> S] : k \in 0..n}

\* Texts that arrive as args.Text.
Texts == {String(runes) : runes \in SeqsUpTo(RuneSet, MaxLen)}

\* Lists that arrive as args.Numbers.
NumberLists == SeqsUpTo((0 - 1)..MaxNumber, MaxLen)

HelloTools == {"echo", "reverse", "calculate"}

\* The arguments of a call of tool t (StringInput, CalcInput).
HelloArgs(t) ==
    IF t = "calculate"
    THEN [text : {<<>>}, numbers : NumberLists]
    ELSE [text : Texts, numbers : {<<>>}]

RECURSIVE SumOf(_)
\* sum := 0.0; for _, n := range args.Numbers { sum += n }
SumOf(numbers) ==
    IF numbers = <<>> THEN 0
    ELSE SumOf(SubSeq(numbers, 1, Len(numbers) - 1)) + numbers[Len(numbers)]

\* fmt.Sprintf("%.2f", num / den) in hundredths: the quotient rounded to the
\* nearest hundredth, a tie to the even one.
Format2(num, den) ==
    LET q == (100 * num) \div den
        r == (100 * num) % den
    IN  IF 2 * r < den THEN q
        ELSE IF 2 * r > den THEN q + 1
        ELSE IF q % 2 = 0 THEN q ELSE q + 1

\* A call of one tool with its arguments has reached the hello backend.
InitHello ==
    /\ backend = [b \in Backends |-> "none"]
    /\ stdIOCmds = <<>>
    /\ mcpClients = <<>>
    /\ initialized = [b \in Backends |-> FALSE]
    /\ reaped = {}
    /\ pc = "spawn"
    /\ idx = 1
    /\ exitCode = NotExited
    /\ hpc = "idle"
    /\ hreq = "none"
    /\ hidx = 1
    /\ hcalls = <<>>
    /\ hres = NoResult
    /\ chanClosed = [b \in Backends |-> "no"]
    /\ cfgEnv0 = <<>>
    /\ cfgEnv = <<>>
    /\ environ = {}
    /\ cpc = "none"
    /\ ctodo = {}
    /\ allTools = <<>>
    /\ name = None
    /\ reader = [b \in Backends |-> "none"]
    /\ stderrBuf = [b \in Backends |-> <<>>]
    /\ logged = {}
    /\ sharedLoopVar = FALSE
    /\ method = "none"
    /\ body = NoBody
    /\ status = None
    /\ tool \in HelloTools
    /\ args \in HelloArgs(tool)
    /\ resp = NoResponse
    /\ herr = FALSE
    /\ applied = 0

\* echoHandler: strings.TrimSpace(args.Text) returned as the response.
echoHandler ==
    /\ tool = "echo"
    /\ applied = 0
    /\ resp' = [present |-> TRUE, text |-> Trim(args.text, {"20"}),
                sum |-> 0, avg |-> 0]
    /\ herr' = FALSE
    /\ applied' = 1
    /\ UNCHANGED <<tool, args>>
    /\ UNCHANGED coreVars
    /\ UNCHANGED envVars
    /\ UNCHANGED listVars
    /\ UNCHANGED logVars
    /\ UNCHANGED httpVars

\* reverseHandler: the runes of the text swapped end for end and converted
\* back.  The caller may send the result back: the second call gets the text
\* of the first response.
reverseHandler ==
    /\ tool = "reverse"
    /\ applied < 2
    /\ LET text == IF applied = 0 THEN args.text ELSE resp.text
       IN  resp' = [present |-> TRUE, text |-> ReverseText(text),
                    sum |-> 0, avg |-> 0]
    /\ herr' = FALSE
    /\ applied' = applied + 1
    /\ UNCHANGED <<tool, args>>
    /\ UNCHANGED coreVars
    /\ UNCHANGED envVars
    /\ UNCHANGED listVars
    /\ UNCHANGED logVars
    /\ UNCHANGED httpVars

\* calculateHandler without the test of the empty list: 0.0 / 0 is NaN, which
\* is formatted into a response with a nil error.
calculateHandler_NoEmptyCheck ==
    /\ tool = "calculate"
    /\ applied = 0
    /\ LET n == Len(args.numbers)
           sum == SumOf(args.numbers)
       IN  resp' = [present |-> TRUE, text |-> <<>>,
                    sum |-> Format2(sum, 1),
                    avg |-> IF n = 0 THEN 0 ELSE Format2(sum, n)]
    /\ herr' = FALSE
    /\ applied' = 1
    /\ UNCHANGED <<tool, args>>
    /\ UNCHANGED coreVars
    /\ UNCHANGED envVars
    /\ UNCHANGED listVars
    /\ UNCHANGED logVars
    /\ UNCHANGED httpVars

\* calculateHandler: an empty list returns nil and the error "no numbers
\* provided"; else sum and avg := sum / float64(len) are formatted with
\* "%.2f" into the response, returned with a nil error.
calculateHandler ==
    /\ tool = "calculate"
    /\ applied = 0
    /\ LET n == Len(args.numbers)
           sum == SumOf(args.numbers)
       IN  IF n = 0
           THEN /\ resp' = NoResponse
                /\ herr' = TRUE
           ELSE /\ resp' = [present |-> TRUE, text |-> <<>>,
                            sum |-> Format2(sum, 1),
                            avg |-> Format2(sum, n)]
                /\ herr' = FALSE
    /\ applied' = 1
    /\ UNCHANGED <<tool, args>>
    /\ UNCHANGED coreVars
    /\ UNCHANGED envVars
    /\ UNCHANGED listVars
    /\ UNCHANGED logVars
    /\ UNCHANGED httpVars

NextHello ==
    \/ echoHandler
    \/ reverseHandler
    \/ calculateHandler

SpecHello == InitHello /\ [][NextHello]_vars

\* The scheduler runs every goroutine of the gateway that can take a step:
\* main, and the handler of the request in flight.  Nothing obliges a child
\* process to fail, and nothing obliges a caller or a signal to arrive.
FairSpec ==
    /\ Spec
    /\ WF_vars(initializeMCPClients)
    /\ WF_vars(initializeAndListTools)
    /\ WF_vars(handleCallTool)
    /\ WF_vars(shutdownPing)
    /\ WF_vars(shutdownMCPClients)

(***************************************************************************)
(* Vocabulary of the claims.                                               *)
(***************************************************************************)

\* The phases of main in the order they are written: spawning (with the
\* idle state before the first spawn), handshakes, serving, shutdown (both
\* loops of shutdownMCPClients), stopped.
PhaseRank(p) ==
    CASE p = "spawn" -> 1
      [] p = "handshake" -> 2
      [] p = "serving" -> 3
      [] p \in {"ping", "kill"} -> 4
      [] p = "stopped" -> 5

\* An Env value of the literal form ${NAME}, and its NAME.
IsPlaceholder(v) ==
    Len(v) >= 3 /\ v[1] = "$" /\ v[2] = "{" /\ v[Len(v)] = "}"

PlaceholderName(v) == SubSeq(v, 3, Len(v) - 1)

\* The entries of allTools that hold tool name t.
Listed(t) == {k \in 1..Len(allTools) : t \in allTools[k].tools}

\* Backends that register tool t.
Exporters(t) == {b \in Backends : t \in Exports(b)}

\* A Ready connection: the handshake completed and the process answers.
Ready(b) == initialized[b] /\ backend[b] = "ok"

\* Descriptor b was attempted and cmd.Start() failed for it.
SpawnFailed(b) == b \in Range(stdIOCmds) \ Range(mcpClients)

\* The handshake of client b was run and failed.
HandshakeFailed(b) ==
    /\ b \in Range(mcpClients)
    /\ ~initialized[b]
    /\ \/ pc \in {"serving", "ping", "kill"}
       \/ pc = "stopped" /\ exitCode = 0
       \/ pc = "handshake" /\ \E k \in 1..(idx - 1) : mcpClients[k] = b

\* The handler waits for the answer to a call that has no deadline, from a
\* backend that does not answer.
Blocked ==
    /\ pc = "serving"
    /\ hpc = "calling"
    /\ CallTool(mcpClients[hidx], hreq) = "NoAnswer"

\* shutdownMCPClients has returned.
ShutdownReturned == pc = "stopped" /\ exitCode = 0

\* An invocation was put on the wire to the backend of call record c.
Dispatched(c) == c.out # "NotInitialized"

(***************************************************************************)
(* C1.  A tool exported by exactly one backend, which is Ready, is always  *)
(* served by that backend, whatever the state of the other backends: the   *)
(* handler never waits on another backend and its response is the owner's. *)
(* Fails: handleCallTool calls the clients in slice order without a        *)
(* deadline, so an unresponsive backend earlier in the slice blocks it.    *)
(***************************************************************************)
C1_UniqueOwnerServes ==
    \A b \in Backends :
        (pc = "serving" /\ hpc # "idle" /\ Exporters(hreq) = {b} /\ Ready(b))
            => /\ ~Blocked
               /\ hpc = "done" => hres.by = b /\ ~hres.err

(***************************************************************************)
(* C2.  After shutdownMCPClients returns, every spawned process has been   *)
(* killed and waited for and none is still running.                        *)
(* Fails: the kill loop returns at the first cmd.Wait() error, and Wait    *)
(* on a killed process always reports an error.                            *)
(***************************************************************************)
C2_ShutdownReapsAll ==
    ShutdownReturned =>
        \A b \in Range(stdIOCmds) : b \in reaped /\ backend[b] \notin Running

C5_ZeroReadyIsFatal ==
    (pc \notin {"spawn", "handshake"} /\ \A b \in Backends : ~initialized[b])
        => pc = "stopped" /\ exitCode = 1

(***************************************************************************)
(* C6.  With all backends Ready, a tool exported by several backends is    *)
(* served by the same backend in every run of the same configuration: the  *)
(* first exporter in configuration order.                                  *)
(* Fails: the spawn loop ranges over a Go map, so the slice order differs  *)
(* from run to run.                                                        *)
(***************************************************************************)
C6_SameWinnerEveryRun ==
    (hpc = "done" /\ hreq = "ping" /\ \A b \in Backends : Ready(b))
        => hres.by = 1

(***************************************************************************)
(* C7.  A call to a tool no backend exports is answered with an error      *)
(* without any backend being called.                                       *)
(* Fails: the handler calls every client and then returns the text         *)
(* "method not found" with a nil error.                                    *)
(***************************************************************************)
C7_UnknownToolNotFound ==
    (hpc # "idle" /\ Exporters(hreq) = {})
        => /\ hcalls = <<>>
           /\ hpc = "done" => hres.err

(***************************************************************************)
(* C8.  Every accepted invocation eventually returns (or the gateway has   *)
(* left Serving).                                                          *)
(* Fails under FairSpec: a call without deadline to a backend that never   *)
(* answers never returns.                                                  *)
(***************************************************************************)
C8_CallReturns ==
    (hpc = "calling") ~> (hpc = "done" \/ pc # "serving")

(***************************************************************************)
(* C9.  While the gateway is Serving no step ends the process with a       *)
(* failure: it goes on serving, or stops with exit code 0 on a signal.     *)
(* Fails in the intermediate server: an error of externalClient.ListTools  *)
(* inside handleToolCall is log.Fatalf.                                    *)
(***************************************************************************)
C9_ServingSurvivesBackendFailure ==
    [][pc = "serving" => exitCode' # 1]_vars

(***************************************************************************)
(* C10.  Within one call the clients are tried in slice order, each at     *)
(* most once; a client is tried only after every earlier one returned an   *)
(* error; the first successful response is the one returned.               *)
(***************************************************************************)
C10_OrderedFallback ==
    /\ Len(hcalls) <= Len(mcpClients)
    /\ \A k \in 1..Len(hcalls) : hcalls[k].b = mcpClients[k]
    /\ \A k \in 1..(Len(hcalls) - 1) : hcalls[k].out \in ErrKinds
    /\ hpc = "calling" =>
          \A k \in 1..Len(hcalls) : hcalls[k].out \in ErrKinds
    /\ (hpc = "done" /\ hres.by # None) =>
          hcalls[Len(hcalls)] = [b |-> hres.by, out |-> "ok"]
    /\ (hpc = "done" /\ hres.by = None) =>
          /\ Len(hcalls) = Len(mcpClients)
          /\ hcalls[Len(hcalls)].out \in ErrKinds

\* C10 witness: the first candidate rejected the call and the second one's
\* response was returned.
C10_Witness ==
    /\ hpc = "done"
    /\ Len(hcalls) >= 2
    /\ hcalls[1].out = "Rejected"
    /\ hres.by = hcalls[Len(hcalls)].b

C12_AllFailedIsError ==
    ( /\ hpc = "done"
      /\ Exporters(hreq) # {}
      /\ hcalls # <<>>
      /\ \A k \in 1..Len(hcalls) : hcalls[k].out \in ErrKinds )
        => /\ hres.err
           /\ hres.text = hcalls[Len(hcalls)].out

(***************************************************************************)
(* C13.  An invocation is dispatched only to a backend that registered the *)
(* tool being called, whatever the order the backends were started in:     *)
(* with backend 1 registering "echo" and backend 2 registering "search", a *)
(* call of "search" is sent to backend 2 and never to backend 1.           *)
(* Fails in the gateway: handleGatewayRequest picks the tool from the      *)
(* position of the client in the slice, and the slice order comes from a   *)
(* map iteration.                                                          *)
(***************************************************************************)
C13_RoutedByOwnership ==
    \A k \in 1..Len(hcalls) :
        (Dispatched(hcalls[k]) /\ GatewayTool(k) = "search")
            => hcalls[k].b \in Exporters("search")

C15_StopAfterShutdown ==
    (pc = "stopped" /\ exitCode = 0)
        => \A b \in Backends : backend[b] # "none" => b \in reaped

(***************************************************************************)
(* C16.  Termination is graceful first: a forceful kill is used only on a  *)
(* process that has not exited by the grace deadline after the termination *)
(* signal.  A backend that is running and answering ends by itself on that *)
(* signal (its main returns on SIGTERM), so no step force-kills it.        *)
(* Fails: shutdownMCPClients calls cmd.Process.Kill() at once on every     *)
(* process; no termination signal is sent and no grace period is waited.   *)
(***************************************************************************)
C16_GracefulBeforeKill ==
    [][\A b \in Backends : backend[b] = "ok" => backend'[b] # "killed"]_vars

(***************************************************************************)
(* C17.  The probe of the shutdown is best effort.  Processes are          *)
(* terminated and waited for only in the second loop; the probe loop is    *)
(* left only after the last client, and only into the second loop, so      *)
(* every client is probed before any process is terminated; a probe step   *)
(* can always be taken, whatever the backend does (its deadline), and the  *)
(* second loop can always start after it, whatever the probes returned.    *)
(***************************************************************************)
C17_ProbeBestEffort ==
    /\ [][(reaped' # reaped
            \/ \E b \in Backends : backend'[b] = "killed" /\ backend[b] # "killed")
          => pc = "kill"]_vars
    /\ [][(pc = "ping" /\ pc' # "ping")
          => pc' = "kill" /\ idx = Len(mcpClients)]_vars
    /\ [](pc = "ping" => ENABLED shutdownPing)
    /\ [](pc = "kill" => ENABLED shutdownMCPClients)

\* C17 witness: a client whose probe failed (it never completed the
\* handshake, so Ping returned an error) was probed, and the second loop
\* then killed and waited for a process.
C17_Witness ==
    /\ pc \in {"kill", "stopped"}
    /\ \E b \in Range(mcpClients) : ~initialized[b]
    /\ \E c \in reaped : backend[c] = "killed"

(***************************************************************************)
(* C18.  Every handshake has a timeout of its own: a backend that does not *)
(* answer the handshake is the only connection excluded and takes no time  *)
(* from the handshake of another backend.  So once both backends are       *)
(* started and the handshakes are over, with backends that either answer   *)
(* or stay silent, every backend that answers has completed its handshake. *)
(* Fails in the intermediate server: both Initialize calls share one 5 s   *)
(* context and a failed one is log.Fatalf.                                 *)
(***************************************************************************)
C18_OwnHandshakeTimeout ==
    ( /\ mcpClients # <<>>
      /\ pc \notin {"start", "initialize"}
      /\ \A c \in Backends : backend[c] \in {"ok", "hung"} )
        => \A b \in Backends : backend[b] = "ok" => initialized[b]

(***************************************************************************)
(* C19.  Child processes are started at startup only: handling a request   *)
(* starts none, so the number of child processes started and still running *)
(* never exceeds the number of backend descriptors (two: hello and         *)
(* weather).                                                               *)
(* Fails in the relay: its handler starts both children on every request   *)
(* and never kills or waits for them.                                      *)
(***************************************************************************)
C19_NoSpawnWhileServing ==
    Len(stdIOCmds) <= Cardinality({hello, weather})

(***************************************************************************)
(* C21.  After the configuration is loaded every Env value of the form     *)
(* ${NAME} has become the value of the environment variable NAME and every *)
(* other value is as in the file; the load ends in the fatal error of      *)
(* resolveEnvVariables only when some referenced NAME is not set.          *)
(* Fails: strings.Trim(value, "${}") removes every leading and trailing    *)
(* '$', '{' and '}', so a NAME that begins or ends with one of them is     *)
(* looked up under another name.                                           *)
(***************************************************************************)
C21_EnvResolved ==
    /\ cpc = "loaded" =>
          \A k \in EnvKeys :
              IF IsPlaceholder(cfgEnv0[k])
              THEN /\ PlaceholderName(cfgEnv0[k]) \in environ
                   /\ cfgEnv[k] = LookupEnv(PlaceholderName(cfgEnv0[k])).value
              ELSE cfgEnv[k] = cfgEnv0[k]
    /\ cpc = "fatalEnv" =>
          \E k \in EnvKeys :
              /\ IsPlaceholder(cfgEnv0[k])
              /\ PlaceholderName(cfgEnv0[k]) \notin environ

(***************************************************************************)
(* C22.  The merged catalog is first-registered-wins: with every backend   *)
(* Ready, each tool name that some backend exports appears exactly once in *)
(* the listing, under the earliest client of the slice that exports it,    *)
(* and a name no backend exports does not appear.                          *)
(* Fails: handleListTools appends every tool of every client, so a name    *)
(* exported by two backends appears twice.                                 *)
(***************************************************************************)
C22_FirstRegisteredWins ==
    (hpc = "done" /\ hreq = "tools/list" /\ \A b \in Backends : Ready(b))
        => \A t \in ToolNames :
              IF Exporters(t) = {}
              THEN Listed(t) = {}
              ELSE /\ Cardinality(Listed(t)) = 1
                   /\ \A k \in Listed(t) :
                         \A j \in 1..Len(mcpClients) :
                             mcpClients[j] = allTools[k].b =>
                                 \A i \in 1..(j - 1) :
                                     mcpClients[i] \notin Exporters(t)

(***************************************************************************)
(* C23.  Every spawned backend has a background reader that drains its     *)
(* diagnostic stream: as long as the child runs, the goroutine that reads  *)
(* its stderr pipe is there, whatever the child writes.                    *)
(* Fails: the goroutine ends at the first line longer than the scanner's   *)
(* buffer, and the pipe of the running child is read by nobody after that. *)
(***************************************************************************)
C23_ReaderDrains ==
    \A b \in Backends : backend[b] \in Running => reader[b] = "scanning"

BothHealthy == backend[hello] = "ok" /\ backend[external] = "ok"

C24_HelloFirst ==
    /\ [](hpc = "done" /\ BothHealthy
             /\ hreq \in Exports(hello) \cup Exports(external)
          => /\ ~hres.err
             /\ hreq \in Exports(hello)
                  => /\ hres.by = hello
                     /\ \A i \in 1..Len(hcalls) : hcalls[i].b # external)
    /\ [][hpc' = "listExternal" /\ hpc # "listExternal"
          => \/ hpc = "listHello"
                /\ (ListTools(hello) # "ok" \/ hreq \notin Exports(hello))
             \/ hpc = "callHello" /\ CallTool(hello, hreq) # "ok"]_vars

\* A request for "ping", which both backends register, answered by
\* helloClient alone while both are healthy.
C24_Witness ==
    /\ hpc = "done"
    /\ BothHealthy
    /\ hreq = "ping"
    /\ hres.by = hello
    /\ hcalls = <<[b |-> hello, out |-> "ok"]>>

(***************************************************************************)
(* C25.  The aggregated listing.  When the handler has answered, every     *)
(* client was asked once in client order, the listing holds one entry, in  *)
(* the same order, for each client whose ListTools returned without error  *)
(* and none for the others, each entry carrying the tools that client      *)
(* registers, and the request did not fail.  In particular a client that   *)
(* answers at the end of the request is in the listing.                    *)
(***************************************************************************)
Succeeded == SelectSeq(hcalls, LAMBDA c : c.out = "ok")

ValidCallTool ==
    /\ method = "POST"
    /\ body.ok
    /\ body.clientIndex \in 1..Len(mcpClients)

C27_CallToolByIndex ==
    hpc = "done" /\ hreq = "/call-tool"
    => IF ValidCallTool
       THEN /\ Len(hcalls) = 1
            /\ hcalls[1].b = mcpClients[body.clientIndex]
            /\ status \in {200, 500}
       ELSE /\ hcalls = <<>>
            /\ status \in {400, 405}

\* A POST with clientIndex 2 answered by the second client alone.
C27_Witness ==
    /\ hpc = "done" /\ hreq = "/call-tool"
    /\ method = "POST" /\ body.ok /\ body.clientIndex = 2
    /\ hcalls = <<[b |-> mcpClients[2], out |-> "ok"]>>
    /\ status = 200

(***************************************************************************)
(* C26.  handleGatewayRequest.  The handler never waits for a backend:     *)
(* while a request is in the loop its next step can be taken.  When it has *)
(* returned, every client was called once, in client order, each call     *)
(* ended with a response or an error (a missing answer is the error of the *)
(* 5 s deadline), the result is the combined text with a nil error, and    *)
(* with the two clients of the gateway's configuration the combined text   *)
(* has one entry per client, in client order.                              *)
(***************************************************************************)
\* combined := responses[0] + "\n" + responses[1]
Combined == SubSeq(hcalls, 1, 2)

C26_GatewayCallsEveryClient ==
    /\ pc = "serving" /\ hpc = "calling" /\ hreq = "gateway"
       => ENABLED handleGatewayRequest
    /\ hpc = "done" /\ hreq = "gateway"
       => /\ Len(hcalls) = Len(mcpClients)
          /\ \A i \in 1..Len(hcalls) :
                /\ hcalls[i].b = mcpClients[i]
                /\ hcalls[i].out \in ErrKinds \cup {"ok"}
          /\ hres = [err |-> FALSE, by |-> None, text |-> "combined"]
          /\ exitCode # 2
          /\ Len(mcpClients) = 2
             => /\ Len(Combined) = Len(mcpClients)
                /\ \A i \in 1..Len(Combined) : Combined[i].b = mcpClients[i]

\* A request whose first call ran into the deadline and whose second call
\* was answered: both entries are in the combined response.
C26_Witness ==
    /\ hpc = "done" /\ hreq = "gateway"
    /\ Len(hcalls) = Len(mcpClients)
    /\ hcalls[1].out = "Timeout"
    /\ hcalls[2].out = "ok"
    /\ hres.text = "combined"

(***************************************************************************)
(* C29.  calculateHandler.  For the empty list the handler returns an      *)
(* error and no response.  For every non-empty list it returns a response  *)
(* and no error; the response shows the sum of the list and its average,   *)
(* each to two decimals (the average within half a hundredth of sum / n).  *)
(***************************************************************************)
C29_CalculateErrorOnlyWhenEmpty ==
    tool = "calculate" /\ applied = 1
    => IF args.numbers = <<>>
       THEN herr /\ ~resp.present
       ELSE LET n == Len(args.numbers)
                d == n * resp.avg - 100 * SumOf(args.numbers)
            IN  /\ ~herr
                /\ resp.present
                /\ resp.sum = 100 * SumOf(args.numbers)
                /\ 2 * d <= n
                /\ 2 * (0 - d) <= n

\* The list 1, 1, 2 answered with sum 4.00 and average 1.33.
C29_Witness ==
    /\ tool = "calculate" /\ applied = 1
    /\ args.numbers = <<1, 1, 2>>
    /\ ~herr
    /\ resp.sum = 400
    /\ resp.avg = 133

(***************************************************************************)
(* C30.  reverseHandler.  The text returned has the length of the input,   *)
(* in bytes and in characters (code points); its character i is character  *)
(* len - 1 - i of the input, counting from 0; and the text returned for    *)
(* the returned text is the input again.                                   *)
(***************************************************************************)
C30_ReverseInvolution ==
    tool = "reverse"
    => /\ applied = 1
          => LET in == Runes(args.text)
                 out == Runes(resp.text)
             IN  /\ Len(resp.text) = Len(args.text)
                 /\ Len(out) = Len(in)
                 /\ \A i \in 1..Len(out) : out[i] = in[Len(in) + 1 - i]
       /\ applied = 2 => resp.text = args.text

\* A text with a character of two bytes, reversed twice.
C30_Witness ==
    /\ tool = "reverse" /\ applied = 2
    /\ args.text = <<"61", "C3", "A9", "20">>
    /\ resp.text = args.text

====
